---- MODULE Spec2Model ----
(***************************************************************************)
(* Model of tooling/run-clang-tidy.py: a dispatcher (main) that starts a   *)
(* fixed pool of daemon worker threads (run_tidy), feeds the names of the  *)
(* selected files through a bounded queue.Queue, waits for the queue to    *)
(* drain and exits with 1 when some invocation failed.                     *)
(*                                                                         *)
(* Strings are TLA+ strings; TLC evaluates Len, \o, Head, Tail and SubSeq  *)
(* on them, which is what the regular-expression search and the joins      *)
(* below compute with.                                                     *)
(***************************************************************************)
EXTENDS Bags, FiniteSets, Integers, Sequences, TLC

(* ------------------------------ bounds -------------------------------- *)

\* largest multiprocessing.cpu_count() explored
MaxPool == 3

(* --------------------------- Python values ---------------------------- *)

\* Python's None and a present value, kept apart from every string
None == << >>
Some(v) == << v >>

(* ------------------------------ helpers ------------------------------- *)

RECURSIVE Join(_, _)
\* sep.join(parts)
Join(sep, parts) ==
  IF Len(parts) = 0 THEN ""
  ELSE IF Len(parts) = 1 THEN parts[1]
  ELSE parts[1] \o sep \o Join(sep, Tail(parts))

RECURSIVE Alternatives(_)
\* the branches of a regular expression at its top-level '|'
Alternatives(re) ==
  IF \A i \in 1..Len(re) : SubSeq(re, i, i) # "|" THEN << re >>
  ELSE LET k == CHOOSE i \in 1..Len(re) :
                  /\ SubSeq(re, i, i) = "|"
                  /\ \A j \in 1..(i - 1) : SubSeq(re, j, j) # "|"
       IN << SubSeq(re, 1, k - 1) >> \o Alternatives(SubSeq(re, k + 1, Len(re)))

RECURSIVE MatchHere(_, _)
RECURSIVE MatchStar(_, _, _)
\* does the branch re match a prefix of s (literals, '.', 'x*', a final '$')
MatchHere(re, s) ==
  IF re = "" THEN TRUE
  ELSE IF Len(re) >= 2 /\ SubSeq(re, 2, 2) = "*"
    THEN MatchStar(Head(re), SubSeq(re, 3, Len(re)), s)
  ELSE IF re = "$" THEN s = ""
  ELSE IF s # "" /\ (Head(re) = "." \/ Head(re) = Head(s))
    THEN MatchHere(Tail(re), Tail(s))
  ELSE FALSE

\* c* followed by re, against a prefix of s
MatchStar(c, re, s) ==
  \/ MatchHere(re, s)
  \/ /\ s # ""
     /\ (c = "." \/ c = Head(s))
     /\ MatchStar(c, re, Tail(s))

\* faulty variant of Search: a match only at the start of s (re.match)
Search_Anchored(pattern, s) ==
  \E k \in 1..Len(Alternatives(pattern)) :
    LET alt == Alternatives(pattern)[k]
    IN IF alt # "" /\ Head(alt) = "^"
         THEN MatchHere(Tail(alt), s)
         ELSE MatchHere(alt, s)

\* re.compile(pattern).search(s): a match starting at any position of s
Search(pattern, s) ==
  \E k \in 1..Len(Alternatives(pattern)) :
    LET alt == Alternatives(pattern)[k]
    IN IF alt # "" /\ Head(alt) = "^"
         THEN MatchHere(Tail(alt), s)
         ELSE \E i \in 0..Len(s) : MatchHere(alt, SubSeq(s, i + 1, Len(s)))

\* file_name_re = re.compile('|'.join(args.files))
file_name_re(patterns) == Join("|", patterns)

\* file_name_re.search(name)
Selected(patterns, name) == Search(file_name_re(patterns), name)

RECURSIVE MatchingEntries(_, _)
\* the entries of a file list that the selection keeps, in list order
MatchingEntries(patterns, fs) ==
  IF Len(fs) = 0 THEN << >>
  ELSE (IF Selected(patterns, Head(fs)) THEN << Head(fs) >> ELSE << >>)
         \o MatchingEntries(patterns, Tail(fs))

\* faulty variant of get_tidy_invocation: the include flag comes before '--'
get_tidy_invocation_FlagFirst(f, clang_tidy_binary, header_filter) ==
  LET start == << clang_tidy_binary, f >>
      filtered == IF header_filter # None
                    THEN Append(start, "-header-filter=" \o header_filter[1])
                    ELSE start
  IN Append(Append(filtered, "-Icugl/include"), "--")

\* faulty variant of get_tidy_invocation: tests the filter for truth, not for None
get_tidy_invocation_Truthy(f, clang_tidy_binary, header_filter) ==
  LET start == << clang_tidy_binary, f >>
      filtered == IF header_filter # None /\ header_filter[1] # ""
                    THEN Append(start, "-header-filter=" \o header_filter[1])
                    ELSE start
  IN Append(Append(filtered, "--"), "-Icugl/include")

\* get_tidy_invocation(f, clang_tidy_binary, header_filter)
get_tidy_invocation(f, clang_tidy_binary, header_filter) ==
  LET start == << clang_tidy_binary, f >>
      filtered == IF header_filter # None
                    THEN Append(start, "-header-filter=" \o header_filter[1])
                    ELSE start
  IN Append(Append(filtered, "--"), "-Icugl/include")

(* ------------------------ the external program ------------------------ *)

\* stands for captured bytes that are not valid UTF-8
BadBytes == "<not utf-8>"

\* bytes.decode('utf-8') succeeds
IsUtf8(b) == b # BadBytes

\* bytes.decode('utf-8') of bytes that are valid (ASCII text decodes to itself)
decode(b) == b

\* the candidate file names
Names == {"apple.cpp", "banana.cpp", "carrot.cpp"}

\* what proc.communicate() and proc.returncode deliver for one invocation
Clean == [returncode |-> 0, output |-> "", err |-> ""]
Warns == [returncode |-> 0, output |-> "w\n", err |-> "1 warning\n"]
Fails == [returncode |-> 1, output |-> "e\n", err |-> "1 error\n"]
Crashes == [returncode |-> 1, output |-> "", err |-> ""]
Garbled == [returncode |-> 0, output |-> BadBytes, err |-> ""]

\* the behaviours of the external binary explored: what it does on each file
Binaries ==
  { [n \in Names |-> Clean],
    [n \in Names |-> IF n = "apple.cpp" THEN Warns
                     ELSE IF n = "banana.cpp" THEN Fails ELSE Crashes],
    [n \in Names |-> IF n = "apple.cpp" THEN Fails
                     ELSE IF n = "banana.cpp" THEN Garbled ELSE Clean] }

(* ------------------------------- inputs ------------------------------- *)

\* the values of the positional 'files' patterns explored: the default, and
\* two patterns that together select banana.cpp and carrot.cpp only
PatternLists == { << ".*" >>, << "b.*", "^c" >> }

\* the candidate names, in the order -cpp lists them
NameList == << "apple.cpp", "banana.cpp", "carrot.cpp" >>

RECURSIVE Pick(_, _)
\* the entries of list l at the positions in S, in order
Pick(l, S) ==
  IF Len(l) = 0 THEN << >>
  ELSE Pick(SubSeq(l, 1, Len(l) - 1), S)
         \o (IF Len(l) \in S THEN << l[Len(l)] >> ELSE << >>)

\* the values of -cpp explored: absent, any selection of the candidates in
\* order, or the same file twice
CppLists ==
  { None } \cup { Some(Pick(NameList, S)) : S \in SUBSET (1..Len(NameList)) }
           \cup { Some(<< "banana.cpp", "banana.cpp" >>) }

\* the worker threads that main may start
Workers == 1..MaxPool

(* ------------------------------- state -------------------------------- *)

VARIABLES
  args,             \* parsed command line: clang_tidy_binary, header_filter, files, cpp
  max_task,         \* multiprocessing.cpu_count()
  binary,           \* environment: what the clang-tidy binary does on each file
  main_pc,          \* position of the main thread
  started,          \* number of worker threads started so far
  next_file,        \* index in files of the next candidate of the fill loop
  task_queue,       \* queue.Queue(max_task): the waiting items, oldest first
  unfinished_tasks, \* the queue's count of items put and not yet task_done
  failed_files,     \* list of files with a non-zero return code
  lock,             \* threading.Lock(): TRUE while held
  return_code,      \* main's return_code
  exit_status,      \* None, or Some(code) once sys.exit(code) ran
  w_pc,             \* position of each worker thread
  w_name,           \* each worker's local name
  w_invocation,     \* each worker's local invocation
  w_result,         \* each worker's proc.returncode, output, err once communicate returned
  w_task,           \* history: which get() (1st, 2nd, ...) handed each worker its item
  io,               \* history: calls on sys.stdout and sys.stderr, in order
  dequeued,         \* history: names returned by queue.get(), in order
  launched,         \* history: bag of names passed to subprocess.Popen
  returned,         \* history: bag of <<name, returncode>> of finished invocations
  processed         \* history: bag of the tasks queue.task_done() was called for

vars == << args, max_task, binary, main_pc, started, next_file, task_queue, unfinished_tasks,
           failed_files, lock, return_code, exit_status, w_pc, w_name, w_invocation,
           w_result, w_task, io, dequeued, launched, returned,
           processed >>

main_vars == << main_pc, started, next_file, return_code, exit_status >>
worker_locals == << w_name, w_invocation, w_result, w_task >>
histories == << io, dequeued, launched, returned, processed >>

\* files = args.cpp, when it is a list
files == args.cpp[1]

\* the process is still running (daemon threads end with it)
Alive == main_pc \notin {"exit", "killed", "crashed"}

Init ==
  /\ args \in [clang_tidy_binary : {"clang-tidy"},
               header_filter : {None},
               files : PatternLists,
               cpp : CppLists]
  /\ max_task \in 1..MaxPool
  /\ binary \in Binaries
  /\ main_pc = "spawn"
  /\ started = 0
  /\ next_file = 1
  /\ task_queue = << >>
  /\ unfinished_tasks = 0
  /\ failed_files = << >>
  /\ lock = FALSE
  /\ return_code = 0
  /\ exit_status = None
  /\ w_pc = [w \in Workers |-> "unstarted"]
  /\ w_name = [w \in Workers |-> None]
  /\ w_invocation = [w \in Workers |-> None]
  /\ w_result = [w \in Workers |-> None]
  /\ w_task = [w \in Workers |-> 0]
  /\ io = << >>
  /\ dequeued = << >>
  /\ launched = EmptyBag
  /\ returned = EmptyBag
  /\ processed = EmptyBag

(* --------------------------- the main thread -------------------------- *)

\* faulty variant of MainSpawn: range(max_task + 1), one thread too many
MainSpawn_OneMore ==
  /\ main_pc = "spawn"
  /\ started < max_task + 1
  /\ started' = started + 1
  /\ w_pc' = [w_pc EXCEPT ![started + 1] = "get"]
  /\ main_pc' = IF started + 1 = max_task + 1 THEN "fill" ELSE "spawn"
  /\ UNCHANGED << args, max_task, binary, next_file, task_queue, unfinished_tasks, failed_files,
                  lock, return_code, exit_status, worker_locals, histories >>

\* for _ in range(max_task): t = threading.Thread(target=run_tidy, ...); t.start()
MainSpawn ==
  /\ main_pc = "spawn"
  /\ started < max_task
  /\ started' = started + 1
  /\ w_pc' = [w_pc EXCEPT ![started + 1] = "get"]
  /\ main_pc' = IF started + 1 = max_task THEN "fill" ELSE "spawn"
  /\ UNCHANGED << args, max_task, binary, next_file, task_queue, unfinished_tasks, failed_files,
                  lock, return_code, exit_status, worker_locals, histories >>

\* for name in files: with files = None the loop raises TypeError, which the
\* try statement does not catch: the interpreter prints the traceback and ends
MainFilesNone ==
  /\ main_pc = "fill"
  /\ args.cpp = None
  /\ main_pc' = "crashed"
  /\ UNCHANGED << args, max_task, binary, started, next_file, task_queue, unfinished_tasks,
                  failed_files, lock, return_code, exit_status, w_pc, worker_locals,
                  histories >>

\* if file_name_re.search(name): (no match: on to the next name)
MainSkip ==
  /\ main_pc = "fill"
  /\ args.cpp # None
  /\ next_file <= Len(files)
  /\ ~Selected(args.files, files[next_file])
  /\ next_file' = next_file + 1
  /\ UNCHANGED << args, max_task, binary, main_pc, started, task_queue, unfinished_tasks,
                  failed_files, lock, return_code, exit_status, w_pc, worker_locals,
                  histories >>

\* faulty variant of MainPut: the queue has no capacity (queue.Queue())
MainPut_Unbounded ==
  /\ main_pc = "fill"
  /\ args.cpp # None
  /\ next_file <= Len(files)
  /\ Selected(args.files, files[next_file])
  /\ task_queue' = Append(task_queue, files[next_file])
  /\ unfinished_tasks' = unfinished_tasks + 1
  /\ next_file' = next_file + 1
  /\ UNCHANGED << args, max_task, binary, main_pc, started, failed_files, lock,
                  return_code, exit_status, w_pc, worker_locals, histories >>

\* task_queue.put(name): waits while the queue holds max_task items
MainPut ==
  /\ main_pc = "fill"
  /\ args.cpp # None
  /\ next_file <= Len(files)
  /\ Selected(args.files, files[next_file])
  /\ Len(task_queue) < max_task
  /\ task_queue' = Append(task_queue, files[next_file])
  /\ unfinished_tasks' = unfinished_tasks + 1
  /\ next_file' = next_file + 1
  /\ UNCHANGED << args, max_task, binary, main_pc, started, failed_files, lock, return_code,
                  exit_status, w_pc, worker_locals, histories >>

\* the for loop over files is exhausted
MainFillDone ==
  /\ main_pc = "fill"
  /\ args.cpp # None
  /\ next_file > Len(files)
  /\ main_pc' = "join"
  /\ UNCHANGED << args, max_task, binary, started, next_file, task_queue, unfinished_tasks,
                  failed_files, lock, return_code, exit_status, w_pc, worker_locals,
                  histories >>

\* faulty variant of MainJoin: the wait gives up after a timeout
MainJoin_TimesOut ==
  /\ main_pc = "join"
  /\ main_pc' = "check"
  /\ UNCHANGED << args, max_task, binary, started, next_file, task_queue,
                  unfinished_tasks, failed_files, lock, return_code, exit_status, w_pc,
                  worker_locals, histories >>

\* faulty variant of MainJoin: waits for an empty queue, not for task_done
MainJoin_QueueEmpty ==
  /\ main_pc = "join"
  /\ task_queue = << >>
  /\ main_pc' = "check"
  /\ UNCHANGED << args, max_task, binary, started, next_file, task_queue,
                  unfinished_tasks, failed_files, lock, return_code, exit_status, w_pc,
                  worker_locals, histories >>

\* task_queue.join(): returns once unfinished_tasks is zero
MainJoin ==
  /\ main_pc = "join"
  /\ unfinished_tasks = 0
  /\ main_pc' = "check"
  /\ UNCHANGED << args, max_task, binary, started, next_file, task_queue, unfinished_tasks,
                  failed_files, lock, return_code, exit_status, w_pc, worker_locals,
                  histories >>

\* faulty variant of MainCheck: a single failed file is not enough
MainCheck_OffByOne ==
  /\ main_pc = "check"
  /\ return_code' = IF Len(failed_files) > 1 THEN 1 ELSE return_code
  /\ main_pc' = "finish"
  /\ UNCHANGED << args, max_task, binary, started, next_file, task_queue,
                  unfinished_tasks, failed_files, lock, exit_status, w_pc, worker_locals,
                  histories >>

\* if len(failed_files): return_code = 1
MainCheck ==
  /\ main_pc = "check"
  /\ return_code' = IF Len(failed_files) # 0 THEN 1 ELSE return_code
  /\ main_pc' = "finish"
  /\ UNCHANGED << args, max_task, binary, started, next_file, task_queue, unfinished_tasks,
                  failed_files, lock, exit_status, w_pc, worker_locals, histories >>

\* sys.exit(return_code) (tmpdir is None: nothing to remove)
MainExit ==
  /\ main_pc = "finish"
  /\ exit_status' = Some(return_code)
  /\ main_pc' = "exit"
  /\ UNCHANGED << args, max_task, binary, started, next_file, task_queue, unfinished_tasks,
                  failed_files, lock, return_code, w_pc, worker_locals, histories >>

\* KeyboardInterrupt raised in the main thread inside the try statement
\* (thread start, fill loop, join, failure test), where the handler catches it
Interrupt ==
  /\ main_pc \in {"spawn", "fill", "join", "check"}
  /\ main_pc' = "except"
  /\ UNCHANGED << args, max_task, binary, started, next_file, task_queue, unfinished_tasks,
                  failed_files, lock, return_code, exit_status, w_pc, worker_locals,
                  histories >>

\* what print('\nCtrl-C detected, goodbye.') writes
Notice == "\nCtrl-C detected, goodbye.\n"

\* print('\nCtrl-C detected, goodbye.')
MainNotice ==
  /\ main_pc = "except"
  /\ io' = Append(io, [stream |-> "stdout", op |-> "write", task |-> 0,
                       text |-> Notice])
  /\ main_pc' = "kill"
  /\ UNCHANGED << args, max_task, binary, started, next_file, task_queue, unfinished_tasks,
                  failed_files, lock, return_code, exit_status, w_pc, worker_locals,
                  dequeued, launched, returned, processed >>

\* faulty variant of MainKill: the handler ends without killing the process
MainKill_FallsThrough ==
  /\ main_pc = "kill"
  /\ main_pc' = "finish"
  /\ UNCHANGED << args, max_task, binary, started, next_file, task_queue,
                  unfinished_tasks, failed_files, lock, return_code, exit_status, w_pc,
                  worker_locals, histories >>

\* os.kill(0, 9): SIGKILL to the process group (tmpdir is None: nothing to remove)
MainKill ==
  /\ main_pc = "kill"
  /\ main_pc' = "killed"
  /\ UNCHANGED << args, max_task, binary, started, next_file, task_queue, unfinished_tasks,
                  failed_files, lock, return_code, exit_status, w_pc, worker_locals,
                  histories >>

(* -------------------------- a worker thread --------------------------- *)

\* faulty variant of Get: the queue is a queue.LifoQueue, get takes the newest item
Get_Last(w) ==
  /\ Alive
  /\ w_pc[w] = "get"
  /\ Len(task_queue) > 0
  /\ task_queue' = SubSeq(task_queue, 1, Len(task_queue) - 1)
  /\ w_name' = [w_name EXCEPT ![w] = Some(task_queue[Len(task_queue)])]
  /\ w_invocation' = [w_invocation EXCEPT ![w] =
       Some(get_tidy_invocation(task_queue[Len(task_queue)], args.clang_tidy_binary,
                                args.header_filter))]
  /\ dequeued' = Append(dequeued, task_queue[Len(task_queue)])
  /\ w_task' = [w_task EXCEPT ![w] = Len(dequeued) + 1]
  /\ w_pc' = [w_pc EXCEPT ![w] = "popen"]
  /\ UNCHANGED << args, max_task, binary, main_vars, unfinished_tasks, failed_files, lock,
                  w_result, io, launched, returned, processed >>

\* faulty variant of Get: reads the oldest item without removing it
Get_NoRemove(w) ==
  /\ Alive
  /\ w_pc[w] = "get"
  /\ Len(task_queue) > 0
  /\ w_name' = [w_name EXCEPT ![w] = Some(Head(task_queue))]
  /\ w_invocation' = [w_invocation EXCEPT ![w] =
       Some(get_tidy_invocation(Head(task_queue), args.clang_tidy_binary,
                                args.header_filter))]
  /\ dequeued' = Append(dequeued, Head(task_queue))
  /\ w_task' = [w_task EXCEPT ![w] = Len(dequeued) + 1]
  /\ w_pc' = [w_pc EXCEPT ![w] = "popen"]
  /\ UNCHANGED << args, max_task, binary, main_vars, task_queue, unfinished_tasks,
                  failed_files, lock, w_result, io, launched, returned, processed >>

\* name = queue.get(); invocation = get_tidy_invocation(name, ...)
Get(w) ==
  /\ Alive
  /\ w_pc[w] = "get"
  /\ Len(task_queue) > 0
  /\ task_queue' = Tail(task_queue)
  /\ w_name' = [w_name EXCEPT ![w] = Some(Head(task_queue))]
  /\ w_invocation' = [w_invocation EXCEPT ![w] =
       Some(get_tidy_invocation(Head(task_queue), args.clang_tidy_binary,
                                args.header_filter))]
  /\ dequeued' = Append(dequeued, Head(task_queue))
  /\ w_task' = [w_task EXCEPT ![w] = Len(dequeued) + 1]
  /\ w_pc' = [w_pc EXCEPT ![w] = "popen"]
  /\ UNCHANGED << args, max_task, binary, main_vars, unfinished_tasks, failed_files, lock,
                  w_result, io, launched, returned, processed >>

\* proc = subprocess.Popen(invocation, ...): the process starts
Popen(w) ==
  /\ Alive
  /\ w_pc[w] = "popen"
  /\ launched' = launched (+) SetToBag({w_name[w][1]})
  /\ w_pc' = [w_pc EXCEPT ![w] = "communicate"]
  /\ UNCHANGED << args, max_task, binary, main_vars, task_queue, unfinished_tasks, failed_files,
                  lock, worker_locals, io, dequeued, returned, processed >>

\* subprocess.Popen raises OSError (the binary cannot be started): nothing in
\* run_tidy catches it, the thread ends with its item neither done nor failed
PopenRaises(w) ==
  /\ Alive
  /\ w_pc[w] = "popen"
  /\ launched' = launched (+) SetToBag({w_name[w][1]})
  /\ w_pc' = [w_pc EXCEPT ![w] = "dead"]
  /\ UNCHANGED << args, max_task, binary, main_vars, task_queue, unfinished_tasks, failed_files,
                  lock, worker_locals, io, dequeued, returned, processed >>

\* faulty variant of Communicate: the return code is not looked at
Communicate_IgnoresStatus(w) ==
  /\ Alive
  /\ w_pc[w] = "communicate"
  /\ LET r == binary[w_name[w][1]]
     IN /\ w_result' = [w_result EXCEPT ![w] = Some(r)]
        /\ returned' = returned (+) SetToBag({ << w_name[w][1], r.returncode >> })
        /\ w_pc' = [w_pc EXCEPT ![w] = "acquire"]
  /\ UNCHANGED << args, max_task, binary, main_vars, task_queue, unfinished_tasks,
                  failed_files, lock, w_name, w_invocation, w_task, io, dequeued,
                  launched, processed >>

\* output, err = proc.communicate(): returns when the process has exited;
\* if proc.returncode != 0: (decides whether the append is next)
Communicate(w) ==
  /\ Alive
  /\ w_pc[w] = "communicate"
  /\ LET r == binary[w_name[w][1]]
     IN /\ w_result' = [w_result EXCEPT ![w] = Some(r)]
        /\ returned' = returned (+) SetToBag({ << w_name[w][1], r.returncode >> })
        /\ w_pc' = [w_pc EXCEPT ![w] = IF r.returncode # 0 THEN "append" ELSE "acquire"]
  /\ UNCHANGED << args, max_task, binary, main_vars, task_queue, unfinished_tasks, failed_files,
                  lock, w_name, w_invocation, w_task, io, dequeued, launched,
                  processed >>

\* faulty variant of AppendFailed: a failed file ends the worker thread
AppendFailed_Stops(w) ==
  /\ Alive
  /\ w_pc[w] = "append"
  /\ failed_files' = Append(failed_files, w_name[w][1])
  /\ w_pc' = [w_pc EXCEPT ![w] = "dead"]
  /\ UNCHANGED << args, max_task, binary, main_vars, task_queue, unfinished_tasks, lock,
                  worker_locals, histories >>

\* faulty variant of AppendFailed: a lost update, the list is overwritten
AppendFailed_Lost(w) ==
  /\ Alive
  /\ w_pc[w] = "append"
  /\ failed_files' = << w_name[w][1] >>
  /\ w_pc' = [w_pc EXCEPT ![w] = "acquire"]
  /\ UNCHANGED << args, max_task, binary, main_vars, task_queue, unfinished_tasks, lock,
                  worker_locals, histories >>

\* failed_files.append(name)
AppendFailed(w) ==
  /\ Alive
  /\ w_pc[w] = "append"
  /\ failed_files' = Append(failed_files, w_name[w][1])
  /\ w_pc' = [w_pc EXCEPT ![w] = "acquire"]
  /\ UNCHANGED << args, max_task, binary, main_vars, task_queue, unfinished_tasks, lock,
                  worker_locals, histories >>

\* faulty variant of Acquire: enters the block without waiting for the lock
Acquire_NoWait(w) ==
  /\ Alive
  /\ w_pc[w] = "acquire"
  /\ lock' = TRUE
  /\ w_pc' = [w_pc EXCEPT ![w] = "write"]
  /\ UNCHANGED << args, max_task, binary, main_vars, task_queue, unfinished_tasks,
                  failed_files, worker_locals, histories >>

\* faulty variant of Acquire: queue.task_done() is called before the with
\* lock: block instead of after it
Acquire_AfterDone(w) ==
  /\ Alive
  /\ w_pc[w] = "acquire"
  /\ ~lock
  /\ lock' = TRUE
  /\ unfinished_tasks' = unfinished_tasks - 1
  /\ processed' = processed (+) SetToBag({ w_task[w] })
  /\ w_pc' = [w_pc EXCEPT ![w] = "write"]
  /\ UNCHANGED << args, max_task, binary, main_vars, task_queue, failed_files,
                  worker_locals, io, dequeued, launched, returned >>

\* with lock: (entry: waits until the lock is free, then holds it)
Acquire(w) ==
  /\ Alive
  /\ w_pc[w] = "acquire"
  /\ ~lock
  /\ lock' = TRUE
  /\ w_pc' = [w_pc EXCEPT ![w] = "write"]
  /\ UNCHANGED << args, max_task, binary, main_vars, task_queue, unfinished_tasks, failed_files,
                  worker_locals, histories >>

\* faulty variant of WriteStdout: the flush and the stderr write are not
\* guarded by len(err) > 0
WriteStdout_AlwaysFlush(w) ==
  /\ Alive
  /\ w_pc[w] = "write"
  /\ IsUtf8(w_result[w][1].output)
  /\ io' = Append(io, [stream |-> "stdout", op |-> "write", task |-> w_task[w],
                       text |-> Join(" ", w_invocation[w][1]) \o "\n"
                                  \o decode(w_result[w][1].output)])
  /\ w_pc' = [w_pc EXCEPT ![w] = "flush"]
  /\ UNCHANGED << args, max_task, binary, main_vars, task_queue, unfinished_tasks, failed_files,
                  lock, worker_locals, dequeued, launched, returned, processed >>

\* sys.stdout.write(' '.join(invocation) + '\n' + output.decode('utf-8'));
\* if len(err) > 0: (decides whether the flush is next)
WriteStdout(w) ==
  /\ Alive
  /\ w_pc[w] = "write"
  /\ IsUtf8(w_result[w][1].output)
  /\ io' = Append(io, [stream |-> "stdout", op |-> "write", task |-> w_task[w],
                       text |-> Join(" ", w_invocation[w][1]) \o "\n"
                                  \o decode(w_result[w][1].output)])
  /\ w_pc' = [w_pc EXCEPT ![w] = IF Len(w_result[w][1].err) > 0 THEN "flush" ELSE "release"]
  /\ UNCHANGED << args, max_task, binary, main_vars, task_queue, unfinished_tasks, failed_files,
                  lock, worker_locals, dequeued, launched, returned, processed >>

\* output.decode('utf-8') raises UnicodeDecodeError: the with statement
\* releases the lock and the uncaught exception ends the thread
WriteStdoutRaises(w) ==
  /\ Alive
  /\ w_pc[w] = "write"
  /\ ~IsUtf8(w_result[w][1].output)
  /\ lock' = FALSE
  /\ w_pc' = [w_pc EXCEPT ![w] = "dead"]
  /\ UNCHANGED << args, max_task, binary, main_vars, task_queue, unfinished_tasks, failed_files,
                  worker_locals, histories >>

\* sys.stdout.flush()
Flush(w) ==
  /\ Alive
  /\ w_pc[w] = "flush"
  /\ io' = Append(io, [stream |-> "stdout", op |-> "flush", task |-> w_task[w], text |-> ""])
  /\ w_pc' = [w_pc EXCEPT ![w] = "write_err"]
  /\ UNCHANGED << args, max_task, binary, main_vars, task_queue, unfinished_tasks, failed_files,
                  lock, worker_locals, dequeued, launched, returned, processed >>

\* sys.stderr.write(err.decode('utf-8'))
WriteStderr(w) ==
  /\ Alive
  /\ w_pc[w] = "write_err"
  /\ io' = Append(io, [stream |-> "stderr", op |-> "write", task |-> w_task[w],
                       text |-> decode(w_result[w][1].err)])
  /\ w_pc' = [w_pc EXCEPT ![w] = "release"]
  /\ UNCHANGED << args, max_task, binary, main_vars, task_queue, unfinished_tasks, failed_files,
                  lock, worker_locals, dequeued, launched, returned, processed >>

\* with lock: (exit: the lock is released)
Release(w) ==
  /\ Alive
  /\ w_pc[w] = "release"
  /\ lock' = FALSE
  /\ w_pc' = [w_pc EXCEPT ![w] = "task_done"]
  /\ UNCHANGED << args, max_task, binary, main_vars, task_queue, unfinished_tasks, failed_files,
                  worker_locals, histories >>

\* queue.task_done(), and round the while True loop
TaskDone(w) ==
  /\ Alive
  /\ w_pc[w] = "task_done"
  /\ unfinished_tasks' = unfinished_tasks - 1
  /\ w_name' = [w_name EXCEPT ![w] = None]
  /\ w_invocation' = [w_invocation EXCEPT ![w] = None]
  /\ w_result' = [w_result EXCEPT ![w] = None]
  /\ w_task' = [w_task EXCEPT ![w] = 0]
  /\ w_pc' = [w_pc EXCEPT ![w] = "get"]
  /\ processed' = processed (+) SetToBag({ w_task[w] })
  /\ UNCHANGED << args, max_task, binary, main_vars, task_queue, failed_files, lock, io,
                  dequeued, launched, returned >>

\* one step of run_tidy in thread w
run_tidy(w) ==
  \/ Get(w)
  \/ Popen(w)
  \/ PopenRaises(w)
  \/ Communicate(w)
  \/ AppendFailed(w)
  \/ Acquire(w)
  \/ WriteStdout(w)
  \/ WriteStdoutRaises(w)
  \/ Flush(w)
  \/ WriteStderr(w)
  \/ Release(w)
  \/ TaskDone(w)

\* one step of main
main ==
  \/ MainSpawn
  \/ MainFilesNone
  \/ MainSkip
  \/ MainPut
  \/ MainFillDone
  \/ MainJoin
  \/ MainCheck
  \/ MainExit
  \/ Interrupt
  \/ MainNotice
  \/ MainKill

Next ==
  \/ main
  \/ \E w \in Workers : run_tidy(w)

Spec == Init /\ [][Next]_vars

\* the steps main takes by itself (an interrupt comes from outside)
MainStep ==
  \/ MainSpawn
  \/ MainFilesNone
  \/ MainSkip
  \/ MainPut
  \/ MainFillDone
  \/ MainJoin
  \/ MainCheck
  \/ MainExit
  \/ MainNotice
  \/ MainKill

\* the main thread and every worker thread keep being scheduled, and every
\* external process that was started exits (communicate returns)
FairSpec ==
  /\ Spec
  /\ WF_vars(MainStep)
  /\ \A w \in Workers : WF_vars(run_tidy(w))

\* the values of -header-filter explored: absent, empty, and two patterns
HeaderFilters == { None, Some(""), Some(".*"), Some("include/.*") }

\* the values of -clang-tidy-binary explored
BinaryPaths == { "clang-tidy", "/opt/llvm/bin/clang-tidy" }

\* runs of one worker over all the command-line options of the invocation
InitArgs ==
  /\ args \in [clang_tidy_binary : BinaryPaths,
               header_filter : HeaderFilters,
               files : { << "b.*", "^c" >> },
               cpp : { None, Some(NameList) }]
  /\ max_task = 1
  /\ binary \in Binaries
  /\ main_pc = "spawn"
  /\ started = 0
  /\ next_file = 1
  /\ task_queue = << >>
  /\ unfinished_tasks = 0
  /\ failed_files = << >>
  /\ lock = FALSE
  /\ return_code = 0
  /\ exit_status = None
  /\ w_pc = [w \in Workers |-> "unstarted"]
  /\ w_name = [w \in Workers |-> None]
  /\ w_invocation = [w \in Workers |-> None]
  /\ w_result = [w \in Workers |-> None]
  /\ w_task = [w \in Workers |-> 0]
  /\ io = << >>
  /\ dequeued = << >>
  /\ launched = EmptyBag
  /\ returned = EmptyBag
  /\ processed = EmptyBag

SpecArgs == InitArgs /\ [][Next]_vars

\* the values of the 'files' patterns of the selection runs: two patterns
\* as given, and the same two anchored at the start of the name
SelectPatterns == { << "a.*", "b.*" >>, << "^a.*", "^b.*" >> }

\* runs of one worker over the three candidates and the selection patterns
InitSelect ==
  /\ args \in [clang_tidy_binary : {"clang-tidy"},
               header_filter : {None},
               files : SelectPatterns,
               cpp : { None, Some(NameList) }]
  /\ max_task = 1
  /\ binary \in Binaries
  /\ main_pc = "spawn"
  /\ started = 0
  /\ next_file = 1
  /\ task_queue = << >>
  /\ unfinished_tasks = 0
  /\ failed_files = << >>
  /\ lock = FALSE
  /\ return_code = 0
  /\ exit_status = None
  /\ w_pc = [w \in Workers |-> "unstarted"]
  /\ w_name = [w \in Workers |-> None]
  /\ w_invocation = [w \in Workers |-> None]
  /\ w_result = [w \in Workers |-> None]
  /\ w_task = [w \in Workers |-> 0]
  /\ io = << >>
  /\ dequeued = << >>
  /\ launched = EmptyBag
  /\ returned = EmptyBag
  /\ processed = EmptyBag

SpecSelect == InitSelect /\ [][Next]_vars

(* ------------------------- derived quantities ------------------------- *)

RECURSIVE BagOfSeq(_)
\* the bag of the entries of a sequence
BagOfSeq(q) ==
  IF Len(q) = 0 THEN EmptyBag ELSE SetToBag({ Head(q) }) (+) BagOfSeq(Tail(q))

\* the set of the entries of a sequence
SetOfSeq(q) == { q[i] : i \in 1..Len(q) }

\* the entries of files that match the selection, in order (files a list)
Matching == MatchingEntries(args.files, files)

\* worker w is inside the with lock: block
InRegion(w) == w_pc[w] \in {"write", "flush", "write_err", "release"}

\* worker w has taken an item from the queue and not yet called task_done
Holding(w) == w_name[w] # None

\* main has returned from sys.exit(return_code)
Returned == main_pc = "exit"

\* a KeyboardInterrupt was caught by main's try statement
Interrupted == main_pc \in {"except", "kill", "killed"}

(* ------------------------------- claims ------------------------------- *)

\* C1: a file is never handed to a worker or launched unless it is a matching
\* entry of the file list, never more often than it occurs there, and when
\* main returns every matching entry has been dequeued and launched exactly
\* once: the invocations launched are exactly the matching entries.
C1_EachMatchingFileOnce ==
  /\ args.cpp # None =>
       /\ launched \sqsubseteq BagOfSeq(Matching)
       /\ BagOfSeq(dequeued) \sqsubseteq BagOfSeq(Matching)
  /\ Returned =>
       /\ launched = BagOfSeq(Matching)
       /\ BagOfSeq(dequeued) = BagOfSeq(Matching)
       /\ BagCardinality(launched) = Len(Matching)

\* C1 witness: main returned after a run that skipped a file and launched two
C1_Witness ==
  /\ Returned
  /\ Len(Matching) = 2
  /\ Len(files) = 3
  /\ BagCardinality(launched) = 2

\* C2: when main returns, the exit code is 0 exactly when no invocation
\* returned a non-zero status and 1 exactly when some invocation did.
C2_ExitCode ==
  Returned =>
    LET failed == \E e \in BagToSet(returned) : e[2] # 0
    IN /\ exit_status \in { Some(0), Some(1) }
       /\ exit_status = Some(0) <=> ~failed
       /\ exit_status = Some(1) <=> failed

\* C2 witness: exit code 1 after a run of two workers in which one invocation
\* returned 0 and another returned non-zero
C2_Witness ==
  /\ Returned
  /\ exit_status = Some(1)
  /\ max_task = 2
  /\ \E e \in BagToSet(returned) : e[2] = 0
  /\ \E e \in BagToSet(returned) : e[2] # 0

\* C3: at most one worker is inside the output region, the lock is held
\* exactly while one is, and in the output history the calls of one emission
\* (header and stdout, flush, stderr) are never separated by a call of another
\* worker's emission.
C3_OutputRegionExclusive ==
  /\ Cardinality({ w \in Workers : InRegion(w) }) <= 1
  /\ lock <=> \E w \in Workers : InRegion(w)
  /\ \A i, j \in 1..Len(io) :
       (i < j /\ io[i].task # 0 /\ io[i].task = io[j].task) =>
         \A k \in i..j : io[k].task \in { io[i].task, 0 }

\* C3 witness: one worker is between its stdout and stderr writes while
\* another, with its own result ready, waits for the lock
C3_Witness ==
  \E w, v \in Workers :
    /\ w # v
    /\ w_pc[w] \in {"flush", "write_err"}
    /\ w_pc[v] = "acquire"
    /\ Len(io) >= 1

\* C4: once task_queue.join() has returned (main is computing or has computed
\* the exit code) the queue is empty, every matching entry has been dequeued,
\* no worker still holds an item, and the pending counter is zero.
C4_JoinMeansDrained ==
  main_pc \in {"check", "finish", "exit"} =>
    /\ task_queue = << >>
    /\ unfinished_tasks = 0
    /\ dequeued = Matching
    /\ \A w \in 1..max_task : ~Holding(w) /\ w_pc[w] = "get"

\* C4 witness: the join returned after three tasks went through three workers
C4_Witness ==
  /\ main_pc = "check"
  /\ Len(dequeued) = 3
  /\ max_task = 3

\* worker w was ended by the exception of a failed subprocess.Popen
LaunchFailed(w) == w_pc[w] = "dead" /\ w_result[w] = None

\* C5: a failed launch ends neither the worker nor the pool: the worker puts
\* the name on failed_files, calls task_done and goes on with its loop.
C5_LaunchFailureRecovered ==
  \A w \in Workers : ~LaunchFailed(w)

\* the run is one C6 speaks of: -cpp gives a list and every captured output
\* is valid UTF-8 (args and binary never change during a run)
Regular == args.cpp # None /\ \A n \in Names : IsUtf8(binary[n].output)

\* C6: in a regular run in which every thread keeps being scheduled and every
\* started process exits, main eventually returns an exit code unless it is
\* interrupted, and every task put in the queue is eventually taken out.
C6_EventuallyReturns ==
  /\ <>(~Regular \/ Interrupted \/ Returned)
  /\ <>(~Regular \/ Interrupted \/ Len(dequeued) = Len(Matching))

\* the number of finished invocations of file n that returned non-zero
FailedRuns(n) ==
  BagCardinality([e \in { x \in BagToSet(returned) : x[1] = n /\ x[2] # 0 }
                    |-> returned[e]])

C8_FailureSetFixed ==
  Returned =>
    /\ SetOfSeq(failed_files)
         = { n \in SetOfSeq(Matching) : binary[n].returncode # 0 }
    /\ launched = BagOfSeq(Matching)

\* C8 witness: a single worker ran three files, two of which failed
C8_Witness ==
  /\ Returned
  /\ max_task = 1
  /\ Len(Matching) = 3
  /\ BagCardinality(launched) = 3
  /\ Len(failed_files) = 2

\* C9: once main has caught the interrupt it never returns an exit code and
\* never goes back to filling or waiting; the notice is printed before the
\* kill; the kill does not wait for anything; after it nothing moves.
C9_InterruptKills ==
  [][ /\ Interrupted => (Interrupted' /\ exit_status' = None)
      /\ (main_pc \in {"spawn", "fill", "join", "check"} /\ main_pc' # main_pc) =>
           main_pc' \in {"spawn", "fill", "join", "check", "finish", "crashed", "except"}
      /\ main_pc' = "killed" =>
           \E i \in 1..Len(io') : io'[i].task = 0 /\ io'[i].text = Notice
      /\ main_pc = "kill" => main_pc' \in {"kill", "killed"}
      /\ main_pc = "killed" => UNCHANGED vars ]_vars

\* C9 witness: the process was killed while a subprocess was still running
\* and the queue was not drained
C9_Witness ==
  /\ main_pc = "killed"
  /\ unfinished_tasks > 0
  /\ \E w \in Workers : w_pc[w] = "communicate"
  /\ \E i \in 1..Len(io) : io[i].text = Notice

\* s starts with p
HasPrefix(s, p) == Len(s) >= Len(p) /\ SubSeq(s, 1, Len(p)) = p

\* the positions of the -header-filter= tokens of an argument vector
FilterTokens(argv) == { i \in 1..Len(argv) : HasPrefix(argv[i], "-header-filter=") }

\* C10 as stated: the argument vector has a -header-filter= token exactly when
\* the pattern is non-empty (none when the option is absent or empty).
C10_TokenIffNonEmpty ==
  \A w \in Workers :
    w_invocation[w] # None =>
      LET argv == w_invocation[w][1]
          hf == args.header_filter
      IN IF hf # None /\ hf[1] # ""
           THEN FilterTokens(argv) = {3} /\ argv[3] = "-header-filter=" \o hf[1]
           ELSE FilterTokens(argv) = {}

\* C10 amended: the argument vector has a -header-filter= token exactly when
\* the option was given, the empty pattern included; then there is one such
\* token, it carries the pattern verbatim and comes right after the file name.
C10_TokenIffGiven ==
  \A w \in Workers :
    w_invocation[w] # None =>
      LET argv == w_invocation[w][1]
          hf == args.header_filter
      IN /\ argv[1] = args.clang_tidy_binary
         /\ argv[2] = w_name[w][1]
         /\ IF hf # None
              THEN FilterTokens(argv) = {3} /\ argv[3] = "-header-filter=" \o hf[1]
              ELSE FilterTokens(argv) = {}

\* C10 witness: an invocation built with the empty pattern given
C10_Witness ==
  \E w \in Workers :
    /\ w_invocation[w] # None
    /\ args.header_filter = Some("")
    /\ w_invocation[w][1][3] = "-header-filter="

\* the names put in the queue so far, in the order of the puts (the queue is
\* first in, first out)
Enqueued == dequeued \o task_queue

\* the fill loop has gone through the whole file list
FillOver == main_pc \in {"join", "check", "finish", "exit"}

\* C11 as stated: with the patterns "a.*" and "b.*" and the candidates
\* apple.cpp, banana.cpp, carrot.cpp, exactly apple.cpp and banana.cpp are
\* enqueued.
C11_SelectsAppleBananaOnly ==
  (FillOver /\ args.files = << "a.*", "b.*" >> /\ args.cpp = Some(NameList)) =>
    Enqueued = << "apple.cpp", "banana.cpp" >>

\* C11 amended: the patterns are searched for anywhere in the name, so "a.*"
\* and "b.*" select all three candidates (carrot.cpp contains an a); anchored
\* at the start, "^a.*" and "^b.*" select exactly apple.cpp and banana.cpp.
C11_SearchSelects ==
  (FillOver /\ args.cpp = Some(NameList)) =>
    /\ args.files = << "a.*", "b.*" >> =>
         Enqueued = << "apple.cpp", "banana.cpp", "carrot.cpp" >>
    /\ args.files = << "^a.*", "^b.*" >> =>
         Enqueued = << "apple.cpp", "banana.cpp" >>

\* C11 witness: the fill loop is over and carrot.cpp was enqueued under the
\* patterns "a.*" and "b.*"
C11_Witness ==
  /\ FillOver
  /\ args.files = << "a.*", "b.*" >>
  /\ args.cpp = Some(NameList)
  /\ \E i \in 1..Len(Enqueued) : Enqueued[i] = "carrot.cpp"

\* what sys.stdout.write is given for the invocation of file n
Block(n) ==
  Join(" ", get_tidy_invocation(n, args.clang_tidy_binary, args.header_filter))
    \o "\n" \o decode(binary[n].output)

\* the t-th dequeued task's header and stdout are in the output history
Emitted(t) ==
  \E i \in 1..Len(io) :
    /\ io[i].task = t
    /\ io[i].stream = "stdout"
    /\ io[i].op = "write"
    /\ io[i].text = Block(dequeued[t])

Running(w) == w_pc[w] = "communicate"

\* C13: as long as the process of some invocation has not exited, its task is
\* not marked processed (the pending counter stays positive), the join has not
\* returned and no exit code has been returned; only the exit of the process
\* moves the worker on, so a process that never exits blocks all three forever.
C13_HungProcessBlocksDrain ==
  \A w \in Workers :
    Running(w) =>
      /\ unfinished_tasks >= 1
      /\ main_pc \notin {"check", "finish", "exit"}
      /\ exit_status = None
      /\ w_result[w] = None
      /\ ~ENABLED MainJoin

\* C13 witness: everything else is done and main waits in the join for the one
\* process that is still running
C13_Witness ==
  \E w \in Workers :
    /\ Running(w)
    /\ main_pc = "join"
    /\ task_queue = << >>
    /\ unfinished_tasks = 1
    /\ Len(dequeued) = 3
    /\ \A v \in (1..max_task) \ {w} : w_pc[v] = "get"

\* C14: the number of names waiting in the queue never exceeds max_task, the
\* capacity the queue was created with, and while the queue holds max_task
\* names the put of the fill loop cannot proceed.
C14_QueueBounded ==
  /\ Len(task_queue) <= max_task
  /\ Len(task_queue) = max_task => ~ENABLED MainPut

\* C14 witness: the fill loop has a matching name to put and the queue is
\* full, so main waits until a worker takes a name out
C14_Witness ==
  /\ main_pc = "fill"
  /\ args.cpp # None
  /\ next_file <= Len(files)
  /\ Selected(args.files, files[next_file])
  /\ Len(task_queue) = max_task
  /\ ~ENABLED MainPut
  /\ \E w \in Workers : ENABLED Get(w)

\* C15: every built argument vector has the binary path first and the file
\* name second, ends with '--' followed by the include flag, holds each of
\* these two exactly once, has nothing else but the optional filter token, and
\* is the value of get_tidy_invocation on the worker's inputs.
C15_VectorShape ==
  \A w \in Workers :
    w_invocation[w] # None =>
      LET argv == w_invocation[w][1]
          n == Len(argv)
      IN /\ n = IF args.header_filter # None THEN 5 ELSE 4
         /\ argv[1] = args.clang_tidy_binary
         /\ argv[2] = w_name[w][1]
         /\ argv[n - 1] = "--"
         /\ argv[n] = "-Icugl/include"
         /\ Cardinality({ i \in 1..n : argv[i] = "--" }) = 1
         /\ Cardinality({ i \in 1..n : HasPrefix(argv[i], "-I") }) = 1
         /\ argv = get_tidy_invocation(w_name[w][1], args.clang_tidy_binary,
                                       args.header_filter)

\* C15 witness: a vector of five arguments built for another binary path and
\* a header filter
C15_Witness ==
  \E w \in Workers :
    /\ w_invocation[w] # None
    /\ args.clang_tidy_binary = "/opt/llvm/bin/clang-tidy"
    /\ args.header_filter = Some("include/.*")
    /\ w_invocation[w][1] = << "/opt/llvm/bin/clang-tidy", w_name[w][1],
                               "-header-filter=include/.*", "--", "-Icugl/include" >>

\* the captured stderr of the process run for task t
ErrOf(t) == binary[dequeued[t]].err

\* the positions of io at which task t did operation op on the stream
Events(t, stream, op) ==
  { i \in 1..Len(io) : io[i].task = t /\ io[i].stream = stream /\ io[i].op = op }

\* C16: a task's stderr text is written only when it is non-empty, after the
\* task's block was written to stdout and stdout was flushed, and the worker
\* holds the lock from the block's write until after the stderr write; a task
\* whose stderr is empty never flushes and never writes to stderr.
C16_StderrAfterFlushUnderLock ==
  /\ \A i \in 1..Len(io) :
       (io[i].task # 0 /\ (io[i].stream = "stderr" \/ io[i].op = "flush")) =>
         Len(ErrOf(io[i].task)) > 0
  /\ \A i \in 1..Len(io) :
       io[i].stream = "stderr" =>
         /\ io[i].text = decode(ErrOf(io[i].task))
         /\ \E j \in Events(io[i].task, "stdout", "write") :
              \E k \in Events(io[i].task, "stdout", "flush") : j < k /\ k < i
  /\ \A w \in Workers :
       w_pc[w] \in {"flush", "write_err"} =>
         /\ lock
         /\ Events(w_task[w], "stdout", "write") # {}
         /\ Events(w_task[w], "stderr", "write") = {}
         /\ w_pc[w] = "write_err" <=> Events(w_task[w], "stdout", "flush") # {}
  /\ \A w \in Workers :
       (w_pc[w] = "release" /\ Events(w_task[w], "stderr", "write") # {}) => lock

\* C16 witness: main has returned, one task wrote its block, flushed and
\* wrote its stderr text, and another wrote its block only
C16_Witness ==
  /\ Returned
  /\ \E t \in 1..Len(dequeued) :
       /\ Len(ErrOf(t)) > 0
       /\ Events(t, "stdout", "flush") # {}
       /\ Events(t, "stderr", "write") # {}
  /\ \E t \in 1..Len(dequeued) :
       /\ Len(ErrOf(t)) = 0
       /\ Emitted(t)
       /\ Events(t, "stdout", "flush") = {}
       /\ Events(t, "stderr", "write") = {}

\* the number of entries of sequence q equal to n
Count(q, n) == Cardinality({ i \in 1..Len(q) : q[i] = n })

\* the output of task t is complete: its block is on stdout and, when its
\* stderr is non-empty, the flush and the stderr text followed
Complete(t) ==
  /\ Emitted(t)
  /\ Len(ErrOf(t)) > 0 =>
       Events(t, "stdout", "flush") # {} /\ Events(t, "stderr", "write") # {}

\* C17: a worker appends to failed_files only after its process has exited and
\* before it emits; it emits before it calls task_done; and once main has left
\* task_queue.join() every failing task is in failed_files, the output of
\* every task is complete, and no worker holds the lock.
C17_StepsInOrder ==
  /\ \A w \in Workers :
       /\ w_pc[w] = "append" =>
            /\ w_result[w] # None /\ w_result[w][1].returncode # 0
            /\ Count(failed_files, w_name[w][1]) < FailedRuns(w_name[w][1])
       /\ w_pc[w] \in {"append", "acquire", "write"} =>
            Events(w_task[w], "stdout", "write") = {}
       /\ w_pc[w] \in {"acquire", "write", "flush", "write_err", "release", "task_done"} =>
            /\ w_result[w] # None
            /\ w_result[w][1].returncode # 0 =>
                 \E i \in 1..Len(failed_files) : failed_files[i] = w_name[w][1]
       /\ w_pc[w] = "task_done" => Complete(w_task[w])
       /\ Holding(w) => unfinished_tasks >= 1
  /\ main_pc \in {"check", "finish", "exit"} =>
       /\ ~lock
       /\ \A w \in Workers : ~InRegion(w) /\ ~Holding(w)
       /\ dequeued = Matching
       /\ \A t \in 1..Len(dequeued) : Complete(t)
       /\ \A n \in Names :
            Count(failed_files, n)
              = Cardinality({ t \in 1..Len(dequeued) :
                                dequeued[t] = n /\ binary[n].returncode # 0 })

\* C17 witness: main computes the exit code after three tasks, one failing
\* with output on both streams and one failing with none
C17_Witness ==
  /\ main_pc = "check"
  /\ Len(dequeued) = 3
  /\ Len(failed_files) = 2
  /\ \E t \in 1..3 : Events(t, "stderr", "write") # {} /\ binary[dequeued[t]].returncode # 0
  /\ \A t \in 1..3 : Complete(t)

\* the number of tasks dequeued and not yet marked processed
InFlight == Len(dequeued) - BagCardinality(processed)

\* C18: the started threads are workers 1..started with started <= max_task;
\* nothing is enqueued before all max_task threads are started; at most
\* max_task processes run at once; and the tasks dequeued and not yet marked
\* processed are held one per worker, so they are at most max_task.
C18_PoolBoundsConcurrency ==
  /\ started <= max_task
  /\ { w \in Workers : w_pc[w] # "unstarted" } = 1..started
  /\ (Len(Enqueued) > 0 \/ unfinished_tasks > 0 \/ main_pc \in {"fill", "join", "check", "finish", "exit"})
       => started = max_task
  /\ Cardinality({ w \in Workers : Running(w) }) <= max_task
  /\ InFlight <= max_task
  /\ InFlight = Cardinality({ w \in Workers : Holding(w) })
  /\ \A v, w \in Workers : (Holding(v) /\ Holding(w) /\ v # w) => w_task[v] # w_task[w]

\* C18 witness: with max_task = 2 both workers run a process while a third
\* name waits in the queue and no third thread exists
C18_Witness ==
  /\ max_task = 2
  /\ started = 2
  /\ Cardinality({ w \in Workers : Running(w) }) = 2
  /\ InFlight = 2
  /\ Len(task_queue) >= 1
  /\ \A w \in Workers \ {1, 2} : w_pc[w] = "unstarted"

\* the worker threads that exist and hold an item: a thread ended by an
\* exception is gone and holds nothing
HeldByWorkers == { w \in Workers : Holding(w) /\ w_pc[w] # "dead" }

\* C19: unfinished_tasks is the number of names put so far minus the number
\* of task_done calls, and also the number of names waiting in the queue plus
\* the number held by workers; it is never negative; and task_done is called
\* at most once for a dequeued task.
C19_CounterAccountsForTasks ==
  /\ unfinished_tasks = Len(Enqueued) - BagCardinality(processed)
  /\ unfinished_tasks = Len(task_queue) + Cardinality(HeldByWorkers)
  /\ unfinished_tasks >= 0
  /\ \A t \in BagToSet(processed) : t \in 1..Len(dequeued) /\ CopiesIn(t, processed) = 1

\* sequence p is an initial part of sequence q
IsPrefix(p, q) == Len(p) <= Len(q) /\ p = SubSeq(q, 1, Len(p))

\* C20: the names dequeued so far, in dequeue order over all workers, and
\* the names enqueued so far are initial parts of the matching entries of the
\* file list in file-list order; the fill loop has put exactly the matching
\* entries among the names it has passed; and when main returns the dequeued
\* names are all the matching entries in that order.
C20_DequeuedInFileListOrder ==
  args.cpp # None =>
    /\ IsPrefix(dequeued, Matching)
    /\ IsPrefix(Enqueued, Matching)
    /\ Enqueued = MatchingEntries(args.files, SubSeq(files, 1, next_file - 1))
    /\ Returned => dequeued = Matching

\* C20 witness: main has returned, the three dequeued names are the file list
\* in order, and the block of the third was written before the block of the
\* first
C20_Witness ==
  /\ args.cpp # None
  /\ Returned
  /\ dequeued = << "apple.cpp", "banana.cpp", "carrot.cpp" >>
  /\ \E i \in Events(3, "stdout", "write") :
       \E j \in Events(1, "stdout", "write") : i < j

====
